---- MODULE Spec2Model ----
(***************************************************************************)
(* quickmd: a markdown previewer.  main.rs drives start-up, ui.rs owns the *)
(* GTK window, the WebView and the dispatch of channel events.  The model  *)
(* follows the main (display) thread through run(), the watcher thread of  *)
(* background::init_update_loop, the glib channel between them, the asset  *)
(* stager and the WebView whose title carries the scroll offset.           *)
(***************************************************************************)
EXTENDS Integers, Sequences, FiniteSets, TLC

\* ---------------------------------------------------------------- bounds
MaxSent == 2        \* events sent on the channel in one execution
MaxSignals == 2     \* raw file-change signals held in one debounce window
MaxScroll == 1      \* scroll offsets the user reaches

\* ------------------------------------------------------------- constants
ExitFailure == 1
Running == 0 - 1

\* Option values: None is the empty sequence, Some(x) the one-element one.
None == <<>>

Some(x) == <<x>>

\* ------------------------------------------------------------ characters
Digits == <<"0", "1", "2", "3", "4", "5", "6", "7", "8", "9">>

DigitChars == {Digits[i] : i \in 1..10}

DigitVal(c) == (CHOOSE i \in 1..10 : Digits[i] = c) - 1

\* titles a document brings along: text, a negative number, a number
\* followed by text
PageTitles == {<<"x">>, <<"-", "1">>, <<"1", "x">>}

\* contents the source file takes
Contents == {"hello", "hello world"}

\* JavaScript's Number -> String for the integer offsets of the model
RECURSIVE NatToString(_)
NatToString(n) ==
    IF n < 10 THEN <<Digits[n + 1]>>
    ELSE Append(NatToString(n \div 10), Digits[(n % 10) + 1])

\* value of a non-empty string of decimal digits
RECURSIVE DecValue(_)
DecValue(s) ==
    IF Len(s) = 0 THEN 0
    ELSE 10 * DecValue(SubSeq(s, 1, Len(s) - 1)) + DigitVal(s[Len(s)])

AllDigits(s) == Len(s) > 0 /\ \A i \in 1..Len(s) : s[i] \in DigitChars

\* str::parse::<f64>().ok() on the characters of the model: an optional
\* sign followed by at least one digit; anything else is an error.
ParseF64(s) ==
    IF Len(s) = 0 THEN None
    ELSE IF s[1] \in {"-", "+"}
         THEN LET r == Tail(s) IN
              IF AllDigits(r)
              THEN Some(IF s[1] = "-" THEN 0 - DecValue(r) ELSE DecValue(r))
              ELSE None
         ELSE IF AllDigits(s) THEN Some(DecValue(s)) ELSE None

\* ui.rs load_html: get_title().and_then(|t| t.parse::<f64>().ok()).unwrap_or(0.0)
ScrollTopDefaultOne(title) ==
    IF title = None THEN 1
    ELSE LET p == ParseF64(title[1]) IN IF p = None THEN 1 ELSE p[1]

ScrollTop(title) ==
    IF title = None THEN 0
    ELSE LET p == ParseF64(title[1]) IN IF p = None THEN 0 ELSE p[1]

\* markdown::Renderer: markdown text -> HTML text
Render(content) == [body |-> content]

\* ------------------------------------------------------------------ state
VARIABLES
    pc,            \* position of the main thread in main()/run()
    exitCode,      \* Running, or the status the process ended with
    stderr,        \* what main() printed with eprintln!
    watch,         \* Options.watch
    fileExists,    \* the source document is on disk
    content,       \* its current content
    sawMissing,    \* run() found md_path.exists() false
    attached,      \* the receiver closure is attached to the main context
    chan,          \* events in flight on the glib channel
    sent,          \* every event sent, in send order
    dispatched,    \* every event the receiver closure was called with
    nextId,        \* send counter (identifies an event)
    loopStarted,   \* background::init_update_loop was called
    signals,       \* raw change signals in the open debounce window
    lastCycle,     \* the watcher's last cycle: outcome, several signals or one
    cycleFailed,   \* some watcher cycle failed to read the file
    dirExists,     \* the staging directory exists
    files,         \* staged files: path -> document
    built,         \* paths returned by Assets.build, in call order
    deleted,       \* Assets.delete() has run
    appCell,       \* the RefCell<Option<App>> of the key-press closure
    uri,           \* path the WebView was last told to load (0: none)
    loadState,     \* "none", "requested", "committed", "finished"
    title,         \* WebView title (Option)
    scrollPos,     \* scroll offset of the displayed page
    lastDispatch,  \* what the last LoadHtml dispatch did
    warnings,      \* the last LoadHtml dispatch logged a warning
    quitVia,       \* what called gtk::main_quit ("none" before)
    keyWaiting,    \* an Escape press waits in the event queue, undelivered
    scrolled       \* the user scrolled since the last LoadHtml dispatch

vars == <<pc, exitCode, stderr, watch, fileExists, content, sawMissing,
          attached, chan, sent, dispatched, nextId, loopStarted, signals,
          lastCycle, cycleFailed, dirExists, files, built, deleted, appCell,
          uri, loadState, title, scrollPos, lastDispatch, warnings, quitVia,
          keyWaiting, scrolled>>

mainVars == <<pc, exitCode, stderr, sawMissing>>

chanVars == <<chan, sent, nextId>>

watcherVars == <<loopStarted, signals, lastCycle, cycleFailed>>

assetVars == <<dirExists, files, built, deleted>>

viewVars == <<uri, loadState, title, scrollPos>>

dispatchVars == <<dispatched, lastDispatch, warnings>>

fileVars == <<fileExists, content>>

NoDispatch == [n |-> 0, title |-> None, scroll |-> 0, ok |-> FALSE, path |-> 0]

Init ==
    /\ pc = "start"
    /\ exitCode = Running
    /\ stderr = None
    /\ watch \in BOOLEAN
    /\ fileExists \in BOOLEAN
    /\ content \in Contents
    /\ sawMissing = FALSE
    /\ attached = FALSE
    /\ chan = <<>>
    /\ sent = <<>>
    /\ dispatched = <<>>
    /\ nextId = 1
    /\ loopStarted = FALSE
    /\ signals = 0
    /\ lastCycle = [many |-> FALSE, outcome |-> "none"]
    /\ cycleFailed = FALSE
    /\ dirExists = FALSE
    /\ files = <<>>
    /\ built = <<>>
    /\ deleted = FALSE
    /\ appCell = FALSE
    /\ uri = 0
    /\ loadState = "none"
    /\ title = None
    /\ scrollPos = 0
    /\ lastDispatch = NoDispatch
    /\ warnings = FALSE
    /\ quitVia = "none"
    /\ keyWaiting = FALSE
    /\ scrolled = FALSE

\* ------------------------------------------------------------ main thread
\* main(): if let Err(e) = run(..) { eprintln!(..); process::exit(1) }
Fail(msg) ==
    /\ pc' = "exited"
    /\ exitCode' = ExitFailure
    /\ stderr' = Some(msg)

\* run(): gtk::init()?
GtkInit ==
    /\ pc = "start"
    /\ \E ok \in BOOLEAN :
        IF ok THEN pc' = "check" /\ UNCHANGED <<exitCode, stderr>>
        ELSE Fail("gtk")
    /\ UNCHANGED <<watch, keyWaiting, scrolled, fileVars, sawMissing,
                   attached, chanVars,
                   watcherVars, assetVars, appCell, viewVars, dispatchVars,
                   quitVia>>

\* run(): if !md_path.exists() { return Err(anyhow!("File not found: ..")) }
CheckPathIgnoresResult ==
    /\ pc = "check"
    /\ pc' = "ui_init"
    /\ sawMissing' = ~fileExists
    /\ UNCHANGED <<exitCode, stderr>>
    /\ UNCHANGED <<watch, keyWaiting, scrolled, fileVars, attached, chanVars,
                   watcherVars,
                   assetVars, appCell, viewVars, dispatchVars, quitVia>>

CheckPath ==
    /\ pc = "check"
    /\ IF fileExists
       THEN pc' = "ui_init" /\ UNCHANGED <<exitCode, stderr, sawMissing>>
       ELSE Fail("File not found") /\ sawMissing' = TRUE
    /\ UNCHANGED <<watch, keyWaiting, scrolled, fileVars, attached, chanVars,
                   watcherVars,
                   assetVars, appCell, viewVars, dispatchVars, quitVia>>

\* run(): let ui = ui::App::init(..)?   (WebContext or Assets::init may fail;
\* Assets::init creates the staging directory)
AppInit ==
    /\ pc = "ui_init"
    /\ \E ok \in BOOLEAN :
        IF ok
        THEN /\ pc' = "attach"
             /\ dirExists' = TRUE
             /\ UNCHANGED <<exitCode, stderr>>
        ELSE Fail("init") /\ UNCHANGED dirExists
    /\ UNCHANGED <<watch, keyWaiting, scrolled, fileVars, sawMissing,
                   attached, chanVars,
                   watcherVars, files, built, deleted, appCell, viewVars,
                   dispatchVars, quitVia>>

\* run(): glib::MainContext::channel(..); ui.init_render_loop(ui_receiver)
InitRenderLoopStartsWatcher ==
    /\ pc = "attach"
    /\ pc' = "initial"
    /\ attached' = TRUE
    /\ loopStarted' = watch
    /\ UNCHANGED <<exitCode, stderr, sawMissing, watch, keyWaiting, scrolled,
                   fileVars, chanVars,
                   signals, lastCycle, cycleFailed, assetVars, appCell,
                   viewVars, dispatchVars, quitVia>>

InitRenderLoop ==
    /\ pc = "attach"
    /\ pc' = "initial"
    /\ attached' = TRUE
    /\ UNCHANGED <<exitCode, stderr, sawMissing, watch, keyWaiting, scrolled,
                   fileVars, chanVars,
                   watcherVars, assetVars, appCell, viewVars, dispatchVars,
                   quitVia>>

\* glib::Sender::send: the event joins the back of the queue
LoadHtml(html) == [type |-> "LoadHtml", html |-> html, id |-> nextId]

Reload == [type |-> "Reload", id |-> nextId]

Send(ev) ==
    /\ chan' = Append(chan, ev)
    /\ sent' = Append(sent, ev)
    /\ nextId' = nextId + 1

\* run(): ui_sender.send(ui::Event::LoadHtml(renderer.run()?))?
\* renderer.run() reads the file again; it may have gone since the check.
InitialRender ==
    /\ pc = "initial"
    /\ IF fileExists
       THEN /\ Send(LoadHtml(Render(content)))
            /\ pc' = "watch"
            /\ UNCHANGED <<exitCode, stderr>>
       ELSE /\ Fail("render")
            /\ UNCHANGED chanVars
    /\ UNCHANGED <<sawMissing, watch, keyWaiting, scrolled, fileVars,
                   attached, watcherVars,
                   assetVars, appCell, viewVars, dispatchVars, quitVia>>

\* run(): if options.watch { background::init_update_loop(renderer, ui_sender) }
StartUpdateLoopIgnoresFlag ==
    /\ pc = "watch"
    /\ pc' = "ui_run"
    /\ loopStarted' = TRUE
    /\ UNCHANGED <<exitCode, stderr, sawMissing, watch, keyWaiting, scrolled,
                   fileVars, attached,
                   chanVars, signals, lastCycle, cycleFailed, assetVars,
                   appCell, viewVars, dispatchVars, quitVia>>

StartUpdateLoop ==
    /\ pc = "watch"
    /\ pc' = "ui_run"
    /\ loopStarted' = watch
    /\ UNCHANGED <<exitCode, stderr, sawMissing, watch, keyWaiting, scrolled,
                   fileVars, attached,
                   chanVars, signals, lastCycle, cycleFailed, assetVars,
                   appCell, viewVars, dispatchVars, quitVia>>

\* App::run: connect_events (the key-press closure gets Some(app clone)),
\* show_all, gtk::main()
UiRun ==
    /\ pc = "ui_run"
    /\ pc' = "main"
    /\ appCell' = TRUE
    /\ UNCHANGED <<exitCode, stderr, sawMissing, watch, keyWaiting, scrolled,
                   fileVars, attached,
                   chanVars, watcherVars, assetVars, viewVars, dispatchVars,
                   quitVia>>

\* gtk::main() returns once the iteration that called main_quit is over;
\* run() returns Ok(()) and main() ends with status 0.
MainLoopExit ==
    /\ pc = "quitting"
    /\ pc' = "exited"
    /\ exitCode' = 0
    /\ UNCHANGED <<stderr, sawMissing, watch, keyWaiting, scrolled, fileVars,
                   attached, chanVars,
                   watcherVars, assetVars, appCell, viewVars, dispatchVars,
                   quitVia>>

\* ----------------------------------------------------------- asset stager
\* Assets.build names its output file: a fresh name on every call, from a
\* counter of the files written
BuildPathFixedName == IF Len(files) = 0 THEN 1 ELSE Len(files)

BuildPath == Len(files) + 1

\* Assets.build succeeds when the staging directory is there and the write
\* goes through (io)
BuildOk(io) == dirExists /\ io

\* the document build writes: the HTML wrapped with the script that restores
\* scroll_position on load
Document(html, scroll_position) == [html |-> html, scroll |-> scroll_position]

WriteFile(path, doc) ==
    IF path \in 1..Len(files) THEN [files EXCEPT ![path] = doc]
    ELSE Append(files, doc)

\* ------------------------------------------------------------- the WebView
\* webview.load_uri: the load is requested; the page on display and its
\* title stay until the new document is committed
Navigate(path) ==
    /\ uri' = path
    /\ loadState' = "requested"
    /\ UNCHANGED <<title, scrollPos>>

\* the new document replaces the old one, scrolled to the top; its title is
\* the <title> of the rendered HTML, if it has one
Commit(t) ==
    /\ pc = "main"
    /\ loadState = "requested"
    /\ loadState' = "committed"
    /\ title' = t
    /\ scrollPos' = 0
    /\ UNCHANGED <<mainVars, watch, keyWaiting, scrolled, fileVars, attached,
                   chanVars, watcherVars,
                   assetVars, appCell, uri, dispatchVars, quitVia>>

PageCommit == \E t \in {None} \cup {Some(d) : d \in PageTitles} : Commit(t)

\* the same for a document without a <title>
PageCommitUntitled == Commit(None)

\* the staged script runs: it scrolls to the staged offset; a scroll that
\* moves the page fires the scroll listener, which writes the title
PageFinish ==
    /\ pc = "main"
    /\ loadState = "committed"
    /\ uri \in 1..Len(files)
    /\ loadState' = "finished"
    /\ LET staged == files[uri].scroll
           target == IF staged < 0 THEN 0
                     ELSE IF staged > MaxScroll THEN MaxScroll ELSE staged
       IN /\ scrollPos' = target
          /\ title' = IF target # scrollPos THEN Some(NatToString(target))
                      ELSE title
    /\ UNCHANGED <<mainVars, watch, keyWaiting, scrolled, fileVars, attached,
                   chanVars, watcherVars,
                   assetVars, appCell, uri, dispatchVars, quitVia>>

\* the user scrolls: the scroll listener writes the offset to the title
UserScroll ==
    /\ pc = "main"
    /\ loadState = "finished"
    /\ \E s \in 0..MaxScroll :
        /\ s # scrollPos
        /\ scrollPos' = s
        /\ title' = Some(NatToString(s))
    /\ scrolled' = TRUE
    /\ UNCHANGED <<mainVars, watch, keyWaiting, fileVars, attached, chanVars,
                   watcherVars,
                   assetVars, appCell, uri, loadState, dispatchVars, quitVia>>

\* ---------------------------------------------------------------- dispatch
\* the glib channel hands the receiver closure the oldest event
ChanNextNewest(q) == q[Len(q)]

ChanNext(q) == Head(q)

ChanRest(q) == Tail(q)

\* App::load_html
load_html_navigates_anyway(html, io) ==
    LET scroll_top == ScrollTop(title)
        ok == BuildOk(io)
        output_path == BuildPath
    IN  /\ IF ok
           THEN /\ files' = WriteFile(output_path, Document(html, scroll_top))
                /\ built' = Append(built, output_path)
           ELSE UNCHANGED <<files, built>>
        /\ Navigate(output_path)
        /\ warnings' = ~ok
        /\ lastDispatch' = [n |-> Len(dispatched) + 1, title |-> title,
                            scroll |-> scroll_top, ok |-> ok,
                            path |-> IF ok THEN output_path ELSE 0]
        /\ scrolled' = FALSE
        /\ UNCHANGED <<dirExists, deleted>>

load_html(html, io) ==
    LET scroll_top == ScrollTop(title)
        ok == BuildOk(io)
        output_path == BuildPath
    IN  /\ IF ok
           THEN /\ files' = WriteFile(output_path, Document(html, scroll_top))
                /\ built' = Append(built, output_path)
                /\ Navigate(output_path)
           ELSE UNCHANGED <<files, built, viewVars>>
        /\ warnings' = ~ok
        /\ lastDispatch' = [n |-> Len(dispatched) + 1, title |-> title,
                            scroll |-> scroll_top, ok |-> ok,
                            path |-> IF ok THEN output_path ELSE 0]
        /\ scrolled' = FALSE
        /\ UNCHANGED <<dirExists, deleted>>

\* App::reload: webview.reload() loads the current resource again; nothing
\* is loaded again when no resource was loaded
reload_restages == \E io \in BOOLEAN : load_html([body |-> ""], io)

reload ==
    /\ loadState' = IF uri # 0 THEN "requested" ELSE loadState
    /\ UNCHANGED <<uri, title, scrollPos, assetVars, lastDispatch, warnings,
                   scrolled>>

\* the closure of App::init_render_loop, called with one event; it returns
\* Continue(true) whatever load_html returned
DispatchDetachesOnError ==
    /\ pc \in {"main", "quitting"}
    /\ attached
    /\ chan # <<>>
    /\ LET event == ChanNext(chan) IN
        /\ chan' = ChanRest(chan)
        /\ dispatched' = Append(dispatched, event)
        /\ IF event.type = "LoadHtml"
           THEN \E io \in BOOLEAN :
                    load_html(event.html, io) /\ attached' = BuildOk(io)
           ELSE reload /\ UNCHANGED attached
    /\ UNCHANGED <<mainVars, watch, keyWaiting, fileVars, sent, nextId,
                   watcherVars,
                   appCell, quitVia>>

Dispatch ==
    /\ pc \in {"main", "quitting"}
    /\ attached
    /\ chan # <<>>
    /\ LET event == ChanNext(chan) IN
        /\ chan' = ChanRest(chan)
        /\ dispatched' = Append(dispatched, event)
        /\ IF event.type = "LoadHtml"
           THEN \E io \in BOOLEAN : load_html(event.html, io)
           ELSE reload
    /\ UNCHANGED <<mainVars, watch, keyWaiting, fileVars, attached, sent,
                   nextId,
                   watcherVars, appCell, quitVia>>

\* ------------------------------------------------------------ window events
\* Assets.delete: removes the staging directory and all it holds
AssetsDelete ==
    /\ dirExists' = FALSE
    /\ files' = <<>>
    /\ deleted' = TRUE
    /\ UNCHANGED built

\* a panic in the closure ends the process: status 101 when it unwinds,
\* 134 when the callback boundary aborts
PanicExit == {101, 134}

\* key-press closure of connect_events; a delivered Escape press is the one
\* that waited, if one did
KeyPressKeepsRunning ==
    /\ pc = "main"
    /\ \E key \in {"Escape", "Other"} :
        IF key = "Escape"
        THEN /\ keyWaiting' = FALSE
             /\ IF appCell
                THEN /\ appCell' = FALSE
                     /\ AssetsDelete
                     /\ quitVia' = "escape"
                     /\ UNCHANGED <<pc, exitCode, stderr>>
                ELSE /\ pc' = "exited"
                     /\ exitCode' \in PanicExit
                     /\ stderr' = Some("panic")
                     /\ UNCHANGED <<appCell, assetVars, quitVia>>
        ELSE UNCHANGED <<pc, exitCode, stderr, appCell, assetVars, quitVia,
                         keyWaiting>>
    /\ UNCHANGED <<sawMissing, watch, scrolled, fileVars, attached, chanVars,
                   watcherVars, viewVars, dispatchVars>>

KeyPress ==
    /\ pc = "main"
    /\ \E key \in {"Escape", "Other"} :
        IF key = "Escape"
        THEN /\ keyWaiting' = FALSE
             /\ IF appCell
                THEN /\ appCell' = FALSE
                     /\ AssetsDelete
                     /\ pc' = "quitting"
                     /\ quitVia' = "escape"
                     /\ UNCHANGED <<exitCode, stderr>>
                ELSE /\ pc' = "exited"
                     /\ exitCode' \in PanicExit
                     /\ stderr' = Some("panic")
                     /\ UNCHANGED <<appCell, assetVars, quitVia>>
        ELSE UNCHANGED <<pc, exitCode, stderr, appCell, assetVars, quitVia,
                         keyWaiting>>
    /\ UNCHANGED <<sawMissing, watch, scrolled, fileVars, attached, chanVars,
                   watcherVars, viewVars, dispatchVars>>

\* the user presses Escape again before the main loop has stopped: the press
\* waits in the event queue; only KeyPress delivers a press to the closure
EscapeAgain ==
    /\ pc \in {"main", "quitting"}
    /\ quitVia = "escape"
    /\ ~keyWaiting
    /\ keyWaiting' = TRUE
    /\ UNCHANGED <<mainVars, watch, scrolled, fileVars, attached, chanVars,
                   watcherVars, assetVars, appCell, viewVars, dispatchVars,
                   quitVia>>

\* delete-event closure of connect_events
DeleteEvent ==
    /\ pc = "main"
    /\ pc' = "quitting"
    /\ quitVia' = "close"
    /\ UNCHANGED <<exitCode, stderr, sawMissing, watch, keyWaiting, scrolled,
                   fileVars, attached,
                   chanVars, watcherVars, assetVars, appCell, viewVars,
                   dispatchVars>>

\* -------------------------------------------------------- the source file
\* a raw change signal reaches the watcher once the update loop runs
\* the file changes while the process runs
Observed == exitCode = Running

Signal == IF loopStarted THEN signals + 1 ELSE signals

\* an editor writes the file
FileWrite ==
    /\ Observed
    /\ fileExists
    /\ signals < MaxSignals
    /\ \E c \in Contents : content' = c
    /\ signals' = Signal
    /\ UNCHANGED <<mainVars, watch, keyWaiting, scrolled, fileExists,
                   attached, chanVars,
                   loopStarted, lastCycle, cycleFailed, assetVars, appCell,
                   viewVars, dispatchVars, quitVia>>

\* the file is removed
FileRemove ==
    /\ Observed
    /\ fileExists
    /\ signals < MaxSignals
    /\ fileExists' = FALSE
    /\ signals' = Signal
    /\ UNCHANGED <<mainVars, watch, keyWaiting, scrolled, content, attached,
                   chanVars, loopStarted,
                   lastCycle, cycleFailed, assetVars, appCell, viewVars,
                   dispatchVars, quitVia>>

\* the file is created again
FileCreate ==
    /\ Observed
    /\ ~fileExists
    /\ signals < MaxSignals
    /\ fileExists' = TRUE
    /\ \E c \in Contents : content' = c
    /\ signals' = Signal
    /\ UNCHANGED <<mainVars, watch, keyWaiting, scrolled, attached, chanVars,
                   loopStarted,
                   lastCycle, cycleFailed, assetVars, appCell, viewVars,
                   dispatchVars, quitVia>>

\* ------------------------------------------------------ the update loop
\* one debounce cycle of background::init_update_loop: the quiet period
\* ends, the signals of the window are one change; the file is loaded and
\* rendered and the result sent; a failed load is logged and the loop goes on
Cycle(limit) ==
    /\ exitCode = Running
    /\ loopStarted
    /\ signals > 0
    /\ IF fileExists
       THEN /\ Len(sent) < limit
            /\ Send(LoadHtml(Render(content)))
            /\ lastCycle' = [many |-> signals > 1, outcome |-> "sent"]
            /\ UNCHANGED cycleFailed
       ELSE /\ lastCycle' = [many |-> signals > 1, outcome |-> "failed"]
            /\ cycleFailed' = TRUE
            /\ UNCHANGED chanVars
    /\ signals' = 0
    /\ UNCHANGED <<mainVars, watch, keyWaiting, scrolled, fileVars, attached,
                   loopStarted,
                   assetVars, appCell, viewVars, dispatchVars, quitVia>>

DebounceExpiryPerSignal ==
    /\ exitCode = Running
    /\ loopStarted
    /\ signals > 0
    /\ IF fileExists
       THEN /\ chan' = chan \o [i \in 1..signals |->
                         [type |-> "LoadHtml", html |-> Render(content),
                          id |-> nextId + i - 1]]
            /\ sent' = sent \o [i \in 1..signals |->
                         [type |-> "LoadHtml", html |-> Render(content),
                          id |-> nextId + i - 1]]
            /\ nextId' = nextId + signals
            /\ lastCycle' = [many |-> signals > 1, outcome |-> "sent"]
            /\ UNCHANGED cycleFailed
       ELSE /\ lastCycle' = [many |-> signals > 1, outcome |-> "failed"]
            /\ cycleFailed' = TRUE
            /\ UNCHANGED chanVars
    /\ signals' = 0
    /\ UNCHANGED <<mainVars, watch, keyWaiting, scrolled, fileVars, attached,
                   loopStarted,
                   assetVars, appCell, viewVars, dispatchVars, quitVia>>

DebounceExpiryStopsOnError ==
    /\ exitCode = Running
    /\ loopStarted
    /\ signals > 0
    /\ IF fileExists
       THEN /\ Len(sent) < MaxSent
            /\ Send(LoadHtml(Render(content)))
            /\ lastCycle' = [many |-> signals > 1, outcome |-> "sent"]
            /\ UNCHANGED <<cycleFailed, loopStarted>>
       ELSE /\ lastCycle' = [many |-> signals > 1, outcome |-> "failed"]
            /\ cycleFailed' = TRUE
            /\ loopStarted' = FALSE
            /\ UNCHANGED chanVars
    /\ signals' = 0
    /\ UNCHANGED <<mainVars, watch, keyWaiting, scrolled, fileVars, attached,
                   assetVars, appCell,
                   viewVars, dispatchVars, quitVia>>

DebounceExpiry == Cycle(MaxSent)

\* the same cycle with room for one more event on the channel
DebounceExpiryAgain == Cycle(MaxSent + 1)

\* the background thread asks for a reload of the page on display
SendReload ==
    /\ exitCode = Running
    /\ loopStarted
    /\ Len(sent) < MaxSent
    /\ Send(Reload)
    /\ UNCHANGED <<mainVars, watch, keyWaiting, scrolled, fileVars, attached,
                   watcherVars, assetVars,
                   appCell, viewVars, dispatchVars, quitVia>>

\* ------------------------------------------------------------ specification
Next ==
    \/ GtkInit
    \/ CheckPath
    \/ AppInit
    \/ InitRenderLoop
    \/ InitialRender
    \/ StartUpdateLoop
    \/ UiRun
    \/ MainLoopExit
    \/ Dispatch
    \/ KeyPress
    \/ EscapeAgain
    \/ DeleteEvent
    \/ PageCommit
    \/ PageFinish
    \/ UserScroll
    \/ FileWrite
    \/ FileRemove
    \/ FileCreate
    \/ DebounceExpiry
    \/ SendReload

Spec == Init /\ [][Next]_vars

\* the program without the page's life cycle: what the WebView does with a
\* load request changes neither the channel nor the position of the main
\* thread, which is all that the dispatch of an event depends on
LoopNext ==
    \/ GtkInit
    \/ CheckPath
    \/ AppInit
    \/ InitRenderLoop
    \/ InitialRender
    \/ StartUpdateLoop
    \/ UiRun
    \/ MainLoopExit
    \/ Dispatch
    \/ KeyPress
    \/ EscapeAgain
    \/ DeleteEvent
    \/ FileWrite
    \/ FileRemove
    \/ FileCreate
    \/ DebounceExpiry
    \/ SendReload

\* the running main loop dispatches a ready channel source
LiveSpec == Init /\ [][LoopNext]_vars /\ WF_vars(Dispatch)

\* the program watching a document that stays on disk and has no <title>,
\* saved once more than Spec allows for
ScrollInit == Init /\ watch /\ fileExists

ScrollNext ==
    \/ GtkInit
    \/ CheckPath
    \/ AppInit
    \/ InitRenderLoop
    \/ InitialRender
    \/ StartUpdateLoop
    \/ UiRun
    \/ Dispatch
    \/ PageCommitUntitled
    \/ PageFinish
    \/ UserScroll
    \/ FileWrite
    \/ DebounceExpiryAgain

ScrollSpec == ScrollInit /\ [][ScrollNext]_vars

\* ------------------------------------------------------------- properties
Range(q) == {q[i] : i \in 1..Len(q)}

\* a step that calls the receiver closure with one event
DispatchStep == Len(dispatched') = Len(dispatched) + 1

\* a step that ends a debounce cycle of the update loop
CycleStep == signals > 0 /\ signals' = 0

\* a dispatch of a LoadHtml event, of a Reload event
LoadHtmlStep ==
    DispatchStep /\ dispatched'[Len(dispatched')].type = "LoadHtml"

ReloadStep ==
    DispatchStep /\ dispatched'[Len(dispatched')].type = "Reload"

\* C1: on every exit path of the display loop (Escape and window close)
\* Assets.delete() has run before the main loop is told to quit, so the
\* staging directory is gone when the process exits.
C1_CleanupOnEveryExitPath ==
    quitVia # "none" => deleted /\ ~dirExists

\* C2: a LoadHtml dispatch whose Assets.build fails only logs a warning: the
\* WebView is not told to navigate, the page loaded before stays the current
\* one, and the process goes on.
C2_BuildFailureOnlyLogged ==
    [][(LoadHtmlStep /\ ~lastDispatch'.ok)
         => /\ warnings'
            /\ uri' = uri
            /\ loadState' = loadState
            /\ pc' = pc
            /\ exitCode' = exitCode]_vars

C2_Witness ==
    /\ lastDispatch.n = 2
    /\ ~lastDispatch.ok
    /\ warnings
    /\ uri = 1
    /\ pc = "main"

\* C3: when the initial render fails, or the Assets.build call of the first
\* LoadHtml event fails, the process ends with a non-zero status and nothing
\* is displayed.
C3_InitialStagingFailureIsFatal ==
    (pc = "exited" /\ lastDispatch.n = 1 /\ ~lastDispatch.ok)
        => exitCode = ExitFailure

\* C4: when the input path is missing at run()'s check, the process prints
\* the error and ends with status 1; no event was sent, the update loop was
\* not started, the receiver not attached and the main loop never entered.
C4_MissingInputIsFatal ==
    sawMissing
        => /\ pc = "exited"
           /\ exitCode = 1
           /\ stderr = Some("File not found")
           /\ sent = <<>>
           /\ chan = <<>>
           /\ dispatched = <<>>
           /\ ~loopStarted
           /\ ~attached
           /\ ~appCell
           /\ quitVia = "none"

C4_Witness == sawMissing /\ pc = "exited" /\ ~fileExists

\* C5: the path the WebView was last told to load is a path a completed,
\* successful Assets.build returned, and its file is fully written; the
\* navigation of a dispatch goes to the path the build of that dispatch
\* returned.
C5_NavigateOnlyToBuiltPath ==
    /\ uri # 0 => uri \in Range(built)
    /\ (uri # 0 /\ dirExists) => uri \in 1..Len(files)
    /\ lastDispatch.ok => /\ lastDispatch.path = built[Len(built)]
                          /\ uri = lastDispatch.path
    /\ (lastDispatch.n > 0 /\ ~lastDispatch.ok) => lastDispatch.path = 0

C5_Witness ==
    /\ uri = 2
    /\ lastDispatch.ok
    /\ built = <<1, 2>>
    /\ loadState = "finished"

\* C6: events are dispatched in the order they were sent, each at most once:
\* the dispatched events are a prefix of the sent ones, the rest is still in
\* the channel in order, and no identifier is sent twice.
C6_FifoAtMostOnce ==
    /\ Len(dispatched) <= Len(sent)
    /\ \A i \in 1..Len(dispatched) : dispatched[i] = sent[i]
    /\ \A i \in 1..Len(chan) : chan[i] = sent[Len(dispatched) + i]
    /\ Len(dispatched) + Len(chan) = Len(sent)
    /\ \A i, j \in 1..Len(sent) : i < j => sent[i].id < sent[j].id

C6_Witness ==
    /\ Len(dispatched) >= 2
    /\ loopStarted
    /\ dispatched[2].type = "LoadHtml"
    /\ dispatched[1].html # dispatched[2].html

\* C7: the change signals of one debounce window, however many, make the
\* update loop send one LoadHtml event; no cycle sends more than one.
C7_DebounceCollapses ==
    [][CycleStep
         => /\ Len(sent') <= Len(sent) + 1
            /\ Len(chan') <= Len(chan) + 1
            /\ fileExists => Len(sent') = Len(sent) + 1]_vars

C7_Witness ==
    /\ lastCycle.many
    /\ lastCycle.outcome = "sent"
    /\ Len(sent) = 2

\* C8: the update loop sends a LoadHtml event only for a cycle whose load
\* succeeded; a cycle whose load fails sends nothing and stops neither the
\* loop nor the process, and a later cycle on the recreated file sends again.
C8_FailedCycleSendsNothing ==
    [][CycleStep
         => IF fileExists
            THEN /\ Len(sent') = Len(sent) + 1
                 /\ sent'[Len(sent')].type = "LoadHtml"
                 /\ sent'[Len(sent')].html = [body |-> content]
                 /\ chan'[Len(chan')] = sent'[Len(sent')]
            ELSE /\ sent' = sent
                 /\ chan' = chan
                 /\ loopStarted'
                 /\ pc' = pc
                 /\ exitCode' = Running]_vars

C8_Witness ==
    /\ cycleFailed
    /\ lastCycle.outcome = "sent"
    /\ fileExists
    /\ exitCode = Running

\* C9: every Assets.build call returns a path no earlier call returned, so a
\* build never overwrites a file staged before.
C9_BuildPathsDistinct ==
    /\ \A i, j \in 1..Len(built) : i # j => built[i] # built[j]
    /\ dirExists => Len(files) = Len(built)

C9_Witness == Len(built) = 2 /\ dirExists /\ files[1] # files[2]

\* C10: the offset a LoadHtml dispatch passes to Assets.build is the number
\* the WebView title spells at dispatch time, 0 when the title is absent or
\* spells no number; the initial render is staged with 0.
NotANumber(s) ==
    \/ Len(s) = 0
    \/ \E i \in 1..Len(s) : s[i] \notin DigitChars /\ ~(i = 1 /\ s[1] \in {"-", "+"})
    \/ \A i \in 1..Len(s) : s[i] \notin DigitChars

C10_ScrollFromTitle ==
    /\ lastDispatch.n = 1 => lastDispatch.scroll = 0
    /\ lastDispatch.title = None => lastDispatch.scroll = 0
    /\ (lastDispatch.title # None /\ NotANumber(lastDispatch.title[1]))
         => lastDispatch.scroll = 0
    /\ \A k \in 0..20 :
         /\ lastDispatch.title = Some(NatToString(k)) => lastDispatch.scroll = k
         /\ lastDispatch.title = Some(<<"-">> \o NatToString(k))
              => lastDispatch.scroll = 0 - k
    /\ (lastDispatch.ok /\ dirExists)
         => files[lastDispatch.path].scroll = lastDispatch.scroll

C10_Witness ==
    /\ lastDispatch.n = 2
    /\ lastDispatch.title = Some(<<"1", "x">>)
    /\ lastDispatch.scroll = 0
    /\ lastDispatch.ok

\* C12: the dispatch of a Reload event only asks the WebView to load its
\* current resource again: nothing is staged, Assets.build is not called,
\* the title is not read for an offset, and the path loaded stays the same.
C12_ReloadOnlyReloads ==
    [][ReloadStep
         => /\ uri' = uri
            /\ files' = files
            /\ built' = built
            /\ dirExists' = dirExists
            /\ lastDispatch' = lastDispatch
            /\ warnings' = warnings
            /\ title' = title
            /\ scrollPos' = scrollPos
            /\ loadState' = IF uri = 0 THEN loadState ELSE "requested"
            /\ pc' = pc]_vars

C12_Witness ==
    /\ Len(dispatched) = 2
    /\ dispatched[2].type = "Reload"
    /\ chan = <<>>
    /\ uri = 1
    /\ built = <<1>>
    /\ loadState = "requested"
    /\ title # None
    /\ pc = "main"

\* C11: the offset a LoadHtml dispatch passes to Assets.build is never
\* negative, whatever the title holds.
C11_ScrollNonNegative == lastDispatch.scroll >= 0

\* C14: once Assets.delete() has run, no LoadHtml event is dispatched any
\* more: no Assets.build call, no navigation.
C14_NoDispatchAfterDelete == [][deleted => ~LoadHtmlStep]_vars

\* C16: Assets.build runs only inside the dispatch of a LoadHtml event on
\* the display thread, one call per dispatch; a step of the watcher thread
\* leaves the staging directory alone.
C16_BuildOnlyInDispatch ==
    [][/\ (built' # built \/ (files' # files /\ deleted' = deleted))
            => /\ LoadHtmlStep
               /\ pc \in {"main", "quitting"}
               /\ pc' = pc
               /\ sent' = sent
               /\ Len(built') = Len(built) + 1
               /\ Len(files') = Len(files) + 1
       /\ (CycleStep \/ (sent' # sent /\ pc' = pc))
            => /\ files' = files
               /\ built' = built
               /\ dirExists' = dirExists
               /\ dispatched' = dispatched]_vars

C16_Witness ==
    /\ Len(built) = 2
    /\ Len(files) = 2
    /\ loopStarted
    /\ lastCycle.outcome = "sent"
    /\ chan = <<>>

\* C17: run() sends the initial LoadHtml after the receiver is attached and
\* before the update loop is started; the update loop sends only after it,
\* so the first event dispatched is the initial render.
C17_InitialRenderFirst ==
    [][/\ (sent' # sent /\ pc' # pc)
            => /\ attached
               /\ ~loopStarted
               /\ sent = <<>>
               /\ sent'[1].type = "LoadHtml"
       /\ (sent' # sent /\ pc' = pc) => (loopStarted /\ Len(sent) >= 1)
       /\ (loopStarted' /\ ~loopStarted) => (attached /\ Len(sent) = 1)
       /\ DispatchStep
            => /\ dispatched'[1] = sent[1]
               /\ dispatched'[1].type = "LoadHtml"
               /\ dispatched'[1].id = 1]_vars

C17_Witness ==
    /\ Len(dispatched) = 2
    /\ dispatched[1].id = 1
    /\ dispatched[2].id = 2
    /\ dispatched[1].type = "LoadHtml"
    /\ lastCycle.outcome = "sent"
    /\ lastDispatch.n = 2

\* C19: without the watch flag the update loop is never started: the
\* initial LoadHtml is the one event ever sent and dispatched, whatever
\* happens to the file afterwards.
C19_NoWatchOneEvent ==
    ~watch
        => /\ ~loopStarted
           /\ signals = 0
           /\ Len(sent) <= 1
           /\ Len(dispatched) <= 1
           /\ pc \in {"watch", "ui_run", "main", "quitting"}
                => (Len(sent) = 1 /\ sent[1].type = "LoadHtml")

C19_Witness ==
    /\ ~watch
    /\ pc = "main"
    /\ Len(dispatched) = 1
    /\ chan = <<>>
    /\ fileExists
    /\ dispatched[1].html # [body |-> content]

\* C18: while the main loop runs, every event sent on the channel is
\* dispatched in the end: the receiver closure stays attached after every
\* event, also after a LoadHtml whose staging failed.
C18_EverySentEventDispatched ==
    \A k \in 1..MaxSent :
        (Len(sent) >= k /\ pc = "main")
            ~> (Len(dispatched) >= k \/ pc # "main")

C18_Witness ==
    /\ Len(dispatched) = 2
    /\ lastDispatch.n = 1
    /\ ~lastDispatch.ok
    /\ dispatched[2].type = "Reload"
    /\ attached
    /\ pc = "main"
\* C13: when the user does not scroll between two consecutive LoadHtml
\* dispatches, the second passes the same offset to Assets.build as the
\* first, also when it comes before the first one's page finished loading.
C13_OffsetKeptWithoutScroll ==
    [][(LoadHtmlStep /\ lastDispatch.n > 0 /\ ~scrolled)
          => lastDispatch'.scroll = lastDispatch.scroll]_vars

====
